---------------------------- MODULE Spec2Model ----------------------------
(***************************************************************************)
(* The browser front end (main script) of the AI code review page: the     *)
(* Completion Client callGeminiAPI, the Submit / Clear / Copy click        *)
(* handlers, formatReviewAsHtml, animateScore and the error banner; and    *)
(* the serverless proxy handler of netlify/functions/review.js.            *)
(*                                                                         *)
(* A JavaScript string is a sequence of one-character strings.  A string   *)
(* literal of the program that is only ever compared as a whole is a       *)
(* one-element sequence holding the literal.                               *)
(***************************************************************************)
EXTENDS Integers, Sequences, FiniteSets, TLC

(***************************************************************************)
(* String primitives of the JavaScript runtime.                            *)
(***************************************************************************)

\* White space as String.prototype.trim and JSON.parse see it.
IsWs(c) == c \in {" ", "\n", "\t", "\r"}

RECURSIVE TrimStart(_)
TrimStart(s) ==
    IF s = <<>> THEN <<>>
    ELSE IF IsWs(Head(s)) THEN TrimStart(Tail(s)) ELSE s

RECURSIVE TrimEnd(_)
TrimEnd(s) ==
    IF s = <<>> THEN <<>>
    ELSE IF IsWs(s[Len(s)]) THEN TrimEnd(SubSeq(s, 1, Len(s) - 1)) ELSE s

\* String.prototype.trim
Trim(s) == TrimEnd(TrimStart(s))

\* String.prototype.indexOf for a one-character needle: 0-based, -1 if absent.
RECURSIVE IndexFrom(_, _, _)
IndexFrom(s, c, i) ==
    IF i > Len(s) THEN -1
    ELSE IF s[i] = c THEN i - 1 ELSE IndexFrom(s, c, i + 1)

IndexOf(s, c) == IndexFrom(s, c, 1)

\* String.prototype.substring(start) with a 0-based start, clamped to the length.
Substring(s, start) ==
    LET b == IF start < 0 THEN 0 ELSE IF start > Len(s) THEN Len(s) ELSE start
    IN  SubSeq(s, b + 1, Len(s))

\* String.prototype.split on a one-character separator.
RECURSIVE SplitAcc(_, _, _)
SplitAcc(s, sep, cur) ==
    IF s = <<>> THEN <<cur>>
    ELSE IF Head(s) = sep THEN <<cur>> \o SplitAcc(Tail(s), sep, <<>>)
    ELSE SplitAcc(Tail(s), sep, Append(cur, Head(s)))

Split(s, sep) == SplitAcc(s, sep, <<>>)

\* String.prototype.replace(/pat/g, ''): every non-overlapping occurrence of
\* the literal pattern, scanning left to right, is removed.
RECURSIVE RemoveAll(_, _)
RemoveAll(s, pat) ==
    IF Len(s) < Len(pat) THEN s
    ELSE IF SubSeq(s, 1, Len(pat)) = pat
         THEN RemoveAll(SubSeq(s, Len(pat) + 1, Len(s)), pat)
         ELSE <<Head(s)>> \o RemoveAll(Tail(s), pat)

(***************************************************************************)
(* JavaScript values as JSON.parse produces them.                          *)
(***************************************************************************)

Undef   == [t |-> "undefined", s |-> <<>>, n |-> 0, m |-> <<>>]
Null    == [t |-> "null", s |-> <<>>, n |-> 0, m |-> <<>>]
Str(x)  == [t |-> "string", s |-> x, n |-> 0, m |-> <<>>]
Num(x)  == [t |-> "number", s |-> <<>>, n |-> x, m |-> <<>>]
Obj(ms) == [t |-> "object", s |-> <<>>, n |-> 0, m |-> ms]

\* Property read o.key on a parsed value that is not null: the last member
\* of that name of an object, undefined for anything else.
RECURSIVE GetFrom(_, _, _)
GetFrom(ms, key, i) ==
    IF i = 0 THEN Undef
    ELSE IF ms[i].k = key THEN ms[i].v ELSE GetFrom(ms, key, i - 1)

Get(o, key) == IF o.t = "object" THEN GetFrom(o.m, key, Len(o.m)) ELSE Undef

Digits == <<"0", "1", "2", "3", "4", "5", "6", "7", "8", "9">>
IsDigit(c) == \E d \in 1..10 : Digits[d] = c
DigitVal(c) == (CHOOSE d \in 1..10 : Digits[d] = c) - 1

(***************************************************************************)
(* JSON.parse for the JSON texts of the model: white space, null,           *)
(* non-negative integers, strings with the escapes \n \" \\ and objects     *)
(* whose members are such values.  Every parser returns                     *)
(* [ok, v, i]: success, the value, the 1-based position after it.           *)
(***************************************************************************)

RECURSIVE SkipWs(_, _)
SkipWs(s, i) == IF i <= Len(s) /\ IsWs(s[i]) THEN SkipWs(s, i + 1) ELSE i

Fail == [ok |-> FALSE, v |-> Undef, i |-> 0]

RECURSIVE ParseChars(_, _, _)
ParseChars(s, i, acc) ==
    IF i > Len(s) THEN Fail
    ELSE IF s[i] = "\"" THEN [ok |-> TRUE, v |-> Str(acc), i |-> i + 1]
    ELSE IF s[i] = "\\"
         THEN IF i + 1 > Len(s) THEN Fail
              ELSE IF s[i + 1] = "n" THEN ParseChars(s, i + 2, Append(acc, "\n"))
              ELSE IF s[i + 1] \in {"\"", "\\"}
                   THEN ParseChars(s, i + 2, Append(acc, s[i + 1]))
              ELSE Fail
    ELSE IF s[i] \in {"\n", "\t", "\r"} THEN Fail
    ELSE ParseChars(s, i + 1, Append(acc, s[i]))

ParseString(s, i) ==
    IF i <= Len(s) /\ s[i] = "\"" THEN ParseChars(s, i + 1, <<>>) ELSE Fail

RECURSIVE ParseDigits(_, _, _)
ParseDigits(s, i, acc) ==
    IF i <= Len(s) /\ IsDigit(s[i])
    THEN ParseDigits(s, i + 1, 10 * acc + DigitVal(s[i]))
    ELSE [ok |-> TRUE, v |-> Num(acc), i |-> i]

ParseNumber(s, i) ==
    IF i > Len(s) \/ ~IsDigit(s[i]) THEN Fail
    ELSE IF s[i] = "0" /\ i + 1 <= Len(s) /\ IsDigit(s[i + 1]) THEN Fail
    ELSE ParseDigits(s, i, 0)

ParseNull(s, i) ==
    IF i + 3 <= Len(s) /\ SubSeq(s, i, i + 3) = <<"n", "u", "l", "l">>
    THEN [ok |-> TRUE, v |-> Null, i |-> i + 4]
    ELSE Fail

ParseScalar(s, i) ==
    IF i > Len(s) THEN Fail
    ELSE IF s[i] = "\"" THEN ParseString(s, i)
    ELSE IF s[i] = "n" THEN ParseNull(s, i)
    ELSE ParseNumber(s, i)

\* The members of an object, after its opening brace or after a comma.
RECURSIVE ParseMembers(_, _, _)
ParseMembers(s, i, acc) ==
    LET k  == ParseString(s, SkipWs(s, i))
        c  == SkipWs(s, k.i)
        v  == ParseScalar(s, SkipWs(s, c + 1))
        e  == SkipWs(s, v.i)
        ms == Append(acc, [k |-> k.v.s, v |-> v.v])
    IN  IF ~k.ok THEN Fail
        ELSE IF c > Len(s) \/ s[c] # ":" THEN Fail
        ELSE IF ~v.ok THEN Fail
        ELSE IF e > Len(s) THEN Fail
        ELSE IF s[e] = "}" THEN [ok |-> TRUE, v |-> Obj(ms), i |-> e + 1]
        ELSE IF s[e] = "," THEN ParseMembers(s, e + 1, ms)
        ELSE Fail

ParseObject(s, i) ==
    LET j == SkipWs(s, i + 1)
    IN  IF j <= Len(s) /\ s[j] = "}" THEN [ok |-> TRUE, v |-> Obj(<<>>), i |-> j + 1]
        ELSE ParseMembers(s, i + 1, <<>>)

ParseValue(s, i) ==
    IF i > Len(s) THEN Fail
    ELSE IF s[i] = "{" THEN ParseObject(s, i)
    ELSE ParseScalar(s, i)

\* JSON.parse(text): [ok, v]; ok = FALSE stands for the SyntaxError it throws.
JSONparse(s) ==
    LET r == ParseValue(s, SkipWs(s, 1))
    IN  IF r.ok /\ SkipWs(s, r.i) > Len(s)
        THEN [ok |-> TRUE, v |-> r.v]
        ELSE [ok |-> FALSE, v |-> Undef]


(***************************************************************************)
(* JSON texts as the model endpoint writes them: the inverse direction of   *)
(* JSON.parse, used to build the candidate texts the client receives.       *)
(***************************************************************************)

\* The character U+0060, which a TLA+ string cannot hold.
BT == "grave"

RECURSIVE Escape(_)
Escape(s) ==
    IF s = <<>> THEN <<>>
    ELSE (IF Head(s) = "\n" THEN <<"\\", "n">>
          ELSE IF Head(s) \in {"\"", "\\"} THEN <<"\\", Head(s)>>
          ELSE <<Head(s)>>) \o Escape(Tail(s))

Quote(s) == <<"\"">> \o Escape(s) \o <<"\"">>

RECURSIVE ToDigits(_)
ToDigits(n) ==
    IF n < 10 THEN <<Digits[n + 1]>>
    ELSE ToDigits(n \div 10) \o <<Digits[(n % 10) + 1]>>

ScalarText(v) ==
    IF v.t = "string" THEN Quote(v.s)
    ELSE IF v.t = "number" THEN ToDigits(v.n)
    ELSE <<"n", "u", "l", "l">>

RECURSIVE MembersText(_, _)
MembersText(ms, i) ==
    IF i > Len(ms) THEN <<>>
    ELSE (IF i > 1 THEN <<",">> ELSE <<>>)
         \o Quote(ms[i].k) \o <<":">> \o ScalarText(ms[i].v)
         \o MembersText(ms, i + 1)

\* JSON.stringify of a value of the model.
Stringify(v) ==
    IF v.t = "object" THEN <<"{">> \o MembersText(v.m, 1) \o <<"}">>
    ELSE ScalarText(v)

KeyReview      == <<"r", "e", "v", "i", "e", "w">>
KeyUpdatedCode == <<"u", "p", "d", "a", "t", "e", "d", "C", "o", "d", "e">>
KeyScore       == <<"s", "c", "o", "r", "e">>

\* The object the prompt asks the model for: {review, updatedCode, score}.
ReviewResult(r, u, sc) ==
    Obj(<<[k |-> KeyReview, v |-> r], [k |-> KeyUpdatedCode, v |-> u],
          [k |-> KeyScore, v |-> sc]>>)

(***************************************************************************)
(* callGeminiAPI, after the response body has been read.                    *)
(***************************************************************************)

Fence     == <<BT, BT, BT>>
FenceJson == Fence \o <<"j", "s", "o", "n">>

\* textResponse.replace(/```json/g, '').replace(/```/g, '').trim()
CleanResponse(textResponse) ==
    Trim(RemoveAll(RemoveAll(textResponse, FenceJson), Fence))

InvalidResponseMsg == <<"The AI returned an invalid response. Please try again.">>

\* What a TypeError of the engine carries as its message.
TypeErrorMsg(what) == <<"TypeError: ", what>>

\* The body of a success response, already read by response.json():
\* result.candidates[0].content.parts[0].text, cleaned and parsed.
\* [ok, v, msg]: the value returned, or the message of the error thrown.
ParseCandidate(body) ==
    IF body.candidates = <<>>
    THEN [ok |-> FALSE, v |-> Undef,
          msg |-> TypeErrorMsg("Cannot read properties of undefined (reading 'content')")]
    ELSE LET p == JSONparse(CleanResponse(body.candidates[1]))
         IN  IF p.ok THEN [ok |-> TRUE, v |-> p.v, msg |-> <<>>]
             ELSE [ok |-> FALSE, v |-> Undef, msg |-> InvalidResponseMsg]

(***************************************************************************)
(* formatReviewAsHtml: the markup is a sequence of characters and tags.     *)
(***************************************************************************)

UlOpen  == "<ul class=\"space-y-2\">"
UlClose == "</ul>"
LiOpen  == "<li class=\"ml-5 list-disc\">"
LiClose == "</li>"

\* line.trim().substring(line.indexOf('*') + 1).trim()
TrimmedLine(line) == Trim(Substring(Trim(line), IndexOf(line, "*") + 1))

RECURSIVE ListItems(_, _)
ListItems(lines, i) ==
    IF i > Len(lines) THEN <<>>
    ELSE <<LiOpen>> \o TrimmedLine(lines[i]) \o <<LiClose>> \o ListItems(lines, i + 1)

IsNonBlank(line) == Trim(line) # <<>>

formatReviewAsHtml(reviewText) ==
    LET lines == SelectSeq(Split(reviewText, "\n"), IsNonBlank)
    IN  <<UlOpen>> \o ListItems(lines, 1) \o <<UlClose>>

(***************************************************************************)
(* Coercions of the JavaScript runtime used by the handlers.                *)
(***************************************************************************)

\* Truthiness of a value ("", 0, null and undefined are falsy).
Truthy(v) ==
    IF v.t = "string" THEN v.s # <<>>
    ELSE IF v.t = "number" THEN v.n # 0
    ELSE v.t = "object"

RECURSIVE DigitsValue(_, _)
DigitsValue(s, acc) ==
    IF s = <<>> THEN acc ELSE DigitsValue(Tail(s), 10 * acc + DigitVal(Head(s)))

\* ToNumber(v): [nan, n].
ToNumber(v) ==
    IF v.t = "number" THEN [nan |-> FALSE, n |-> v.n]
    ELSE IF v.t = "null" THEN [nan |-> FALSE, n |-> 0]
    ELSE IF v.t = "string"
         THEN LET d == Trim(v.s)
              IN  IF d = <<>> THEN [nan |-> FALSE, n |-> 0]
                  ELSE IF \A i \in 1..Len(d) : IsDigit(d[i])
                       THEN [nan |-> FALSE, n |-> DigitsValue(d, 0)]
                       ELSE [nan |-> TRUE, n |-> 0]
    ELSE [nan |-> TRUE, n |-> 0]

\* currentScore >= finalScore, for a number currentScore and any finalScore.
GreaterOrEqual(currentScore, finalScore) ==
    LET f == ToNumber(finalScore) IN ~f.nan /\ currentScore >= f.n

(***************************************************************************)
(* The try block of the Submit handler after callGeminiAPI has returned.    *)
(***************************************************************************)

NoChangesMsg == <<"No changes needed. Your code is looking great!">>

\* HandleResult without the trim in the test of updatedCode.
HandleResultUntrimmed(result) ==
    LET review == Get(result, KeyReview)
        code   == Get(result, KeyUpdatedCode)
        none   == [failed |-> TRUE, msg |-> <<>>, review |-> FALSE, html |-> <<>>,
                   code |-> FALSE, value |-> <<>>, animate |-> FALSE, score |-> Undef]
    IN  IF result.t = "null"
        THEN [none EXCEPT !.msg =
                 TypeErrorMsg("Cannot read properties of null (reading 'review')")]
        ELSE IF review.t # "string"
        THEN [none EXCEPT !.msg = TypeErrorMsg("reviewText.split is not a function")]
        ELSE IF Truthy(code) /\ code.t # "string"
        THEN [none EXCEPT !.msg = TypeErrorMsg("result.updatedCode.trim is not a function"),
                          !.review = TRUE, !.html = formatReviewAsHtml(review.s)]
        ELSE [failed |-> FALSE, msg |-> <<>>,
              review |-> TRUE, html |-> formatReviewAsHtml(review.s),
              code |-> TRUE,
              value |-> IF Truthy(code) THEN code.s ELSE NoChangesMsg,
              animate |-> TRUE, score |-> Get(result, KeyScore)]

\* What lines 119-127 do with a parsed result: which panels are written
\* with what, whether animateScore is reached, and the message of the
\* TypeError thrown on the way, if any.
HandleResult(result) ==
    LET review == Get(result, KeyReview)
        code   == Get(result, KeyUpdatedCode)
        none   == [failed |-> TRUE, msg |-> <<>>, review |-> FALSE, html |-> <<>>,
                   code |-> FALSE, value |-> <<>>, animate |-> FALSE, score |-> Undef]
    IN  IF result.t = "null"
        THEN [none EXCEPT !.msg =
                 TypeErrorMsg("Cannot read properties of null (reading 'review')")]
        ELSE IF review.t # "string"
        THEN [none EXCEPT !.msg = TypeErrorMsg("reviewText.split is not a function")]
        ELSE IF Truthy(code) /\ code.t # "string"
        THEN [none EXCEPT !.msg = TypeErrorMsg("result.updatedCode.trim is not a function"),
                          !.review = TRUE, !.html = formatReviewAsHtml(review.s)]
        ELSE [failed |-> FALSE, msg |-> <<>>,
              review |-> TRUE, html |-> formatReviewAsHtml(review.s),
              code |-> TRUE,
              value |-> IF Truthy(code) /\ Trim(code.s) # <<>> THEN code.s
                        ELSE NoChangesMsg,
              animate |-> TRUE, score |-> Get(result, KeyScore)]

(***************************************************************************)
(* The page: state of the elements the script holds, the pending            *)
(* invocations of the Submit handler, the timers and the clipboard writes.  *)
(***************************************************************************)

VARIABLES
    inputCode,          \* inputCode.value
    reviewOutput,       \* reviewOutput.innerHTML
    outputCode,         \* outputCode.value
    scoreDisplay,       \* scoreDisplay.textContent
    loaderHidden,       \* loader.classList has 'hidden'
    reviewBtnDisabled,  \* reviewBtn.disabled
    errorBoxHidden,     \* errorBox.classList has 'hidden'
    errorMessage,       \* errorMessage.textContent
    copyBtnText,        \* copyBtn.textContent
    calls,              \* suspended Submit handlers: [pc, resp], pc the await
    timers,             \* setInterval timers of animateScore: [cur, final, rem]
    copyWrites,         \* texts of the clipboard.writeText promises not yet settled
    copyTimers,         \* setTimeout timers of the Copy handler: time left
    cleared,            \* history: Clear was clicked and Submit not since
    arg,                \* argument of the function applied alone (SpecAnimate, SpecFormat, SpecClean)
    ret,                \* its result
    proxy               \* the invocation of the proxy handler: [pc, parsed, upstreamCalls, up]

vars == <<inputCode, reviewOutput, outputCode, scoreDisplay, loaderHidden,
          reviewBtnDisabled, errorBoxHidden, errorMessage, copyBtnText,
          calls, timers, copyWrites, copyTimers, cleared, arg, ret, proxy>>

\* Bounds of the model.
MaxAnim   == 2   \* animations and submissions pending together
MaxCopies == 1   \* clipboard writes and relabel timers pending together
MaxTicks  == 4   \* ticks of an animation whose target is not a number

\* Constants of the program.
AnimInterval == 20
CopyDelay    == 2000

Placeholder   == <<"AI's feedback will appear here...">>
ValidationMsg == <<"Please paste some code in the input box before reviewing.">>
ErrorPrefix   == <<"An error occurred: ">>

\* What the user may have typed into the input box.
Inputs == {<<" ", "\n">>, <<" ", "x", " ">>}

(***************************************************************************)
(* What the endpoint may answer.                                            *)
(***************************************************************************)

Wrap(text)     == FenceJson \o <<"\n">> \o text \o <<"\n">> \o Fence
WrapPlain(text) == Fence \o <<"\n">> \o text \o <<"\n">> \o Fence

CandidateTexts ==
    { Wrap(Stringify(ReviewResult(Str(<<"*", " ", "a", "\n", "*", " ", "b">>),
                                  Str(<<"x">>), Num(2)))),
      Stringify(ReviewResult(Str(<<"*", "d">>), Str(<<>>), Num(1))),
      Stringify(ReviewResult(Str(<<" ", "*", " ", "c">>), Num(5), Num(1))),
      Stringify(Obj(<<[k |-> KeyScore, v |-> Num(1)]>>)),
      <<"S", "u", "r", "e", "!">> }

Body(isJson, cands) == [json |-> isJson, candidates |-> cands]

Responses ==
    { [status |-> 429, statusText |-> "Too Many Requests", body |-> Body(TRUE, <<>>)],
      [status |-> 200, statusText |-> "OK", body |-> Body(FALSE, <<>>)],
      [status |-> 200, statusText |-> "OK", body |-> Body(TRUE, <<>>)] }
    \cup { [status |-> 200, statusText |-> "OK", body |-> Body(TRUE, <<t>>)] :
             t \in CandidateTexts }

\* fetch() rejects (no response at all).
NetworkError == [status |-> 0, statusText |-> "Failed to fetch", body |-> Body(FALSE, <<>>)]

Outcomes == Responses \cup {NetworkError}

\* response.ok
Ok(r) == r.status \in 200..299

\* Result objects as the endpoint may also send them: a member may be
\* missing, and updatedCode may be null, a number, or a blank string.
Member(key, v) == IF v = Undef THEN <<>> ELSE <<[k |-> key, v |-> v]>>

PartialResult(r, u, sc) ==
    Obj(Member(KeyReview, r) \o Member(KeyUpdatedCode, u) \o Member(KeyScore, sc))

ResolveReviews == {Str(<<"*", " ", "a">>), Undef}

ResolveCodes ==
    { Undef, Null, Num(0), Num(5), Str(<<>>), Str(<<" ">>), Str(<<" ", "\n">>),
      Str(<<"x">>), Str(<<" ", "x", " ">>) }

ResolveScores == {Num(0), Num(3), Undef}

ResolveResults ==
    { PartialResult(r, u, sc) :
        r \in ResolveReviews, u \in ResolveCodes, sc \in ResolveScores }

ResponseWith(o) ==
    [status |-> 200, statusText |-> "OK", body |-> Body(TRUE, <<Stringify(o)>>)]

ResolveResponses == {ResponseWith(o) : o \in ResolveResults}

(***************************************************************************)
(* Initial state: the page as loaded.                                       *)
(***************************************************************************)

PageLoaded ==
    /\ inputCode = <<>>
    /\ reviewOutput = Placeholder
    /\ outputCode = <<>>
    /\ scoreDisplay = "N/A"
    /\ loaderHidden = TRUE
    /\ reviewBtnDisabled = FALSE
    /\ errorBoxHidden = TRUE
    /\ errorMessage = <<>>
    /\ copyBtnText = "Copy"
    /\ calls = <<>>
    /\ timers = <<>>
    /\ copyWrites = <<>>
    /\ copyTimers = <<>>
    /\ cleared = FALSE

\* The result of the function applied alone: none yet, or the value returned.
NotCalled   == [called |-> FALSE, value |-> <<>>]
Returned(v) == [called |-> TRUE, value |-> v]

\* No invocation of the proxy handler yet.
NoUpstream == [status |-> 0, text |-> <<>>, json |-> FALSE, candidates |-> <<>>]
ProxyIdle  == [pc |-> "idle", parsed |-> FALSE, upstreamCalls |-> 0, up |-> NoUpstream]

Init ==
    /\ PageLoaded
    /\ arg = <<>>
    /\ ret = NotCalled
    /\ proxy = ProxyIdle

(***************************************************************************)
(* Helpers of the script.                                                   *)
(***************************************************************************)

showError(message) ==
    /\ errorMessage' = message
    /\ errorBoxHidden' = FALSE

hideError ==
    /\ errorBoxHidden' = TRUE
    /\ UNCHANGED errorMessage

\* setInterval(..., 20) with currentScore = 0 in its closure.
animateScore(finalScore) ==
    timers' = Append(timers, [cur |-> 0, final |-> finalScore, rem |-> AnimInterval])

Remove(seq, i) == SubSeq(seq, 1, i - 1) \o SubSeq(seq, i + 1, Len(seq))

\* IsBlank without the trim.
IsBlankUntrimmed(value) == value = <<>>

\* if (!userCode): the trimmed input is the empty string.
IsBlank(value) == Trim(value) = <<>>

\* EnterLoading without disabling the button.
EnterLoadingEnabled ==
    /\ hideError
    /\ loaderHidden' = FALSE
    /\ UNCHANGED reviewBtnDisabled

\* EnterLoading without hiding the banner.
EnterLoadingKeepsBanner ==
    /\ loaderHidden' = FALSE
    /\ reviewBtnDisabled' = TRUE
    /\ UNCHANGED <<errorBoxHidden, errorMessage>>

\* Lines 111-113: hide the banner, show the spinner, disable the button.
EnterLoading ==
    /\ hideError
    /\ loaderHidden' = FALSE
    /\ reviewBtnDisabled' = TRUE

\* callGeminiAPI without the status check.
ThrowsOnStatusNever(r) == FALSE

\* if (!response.ok) throw ...
ThrowsOnStatus(r) == ~Ok(r)

ApiErrorMsg(r) == <<"API Error: ", ToString(r.status), " ", r.statusText>>

SyntaxErrorMsg == <<"SyntaxError: Unexpected token in JSON">>

\* catch (error) { showError(`An error occurred: ${error.message}`) }
Catch(msg) == showError(ErrorPrefix \o msg)

\* Finally without re-enabling the button.
FinallyLeavesDisabled ==
    /\ loaderHidden' = TRUE
    /\ UNCHANGED reviewBtnDisabled

\* finally { hide the loader, re-enable the button }
Finally ==
    /\ loaderHidden' = TRUE
    /\ reviewBtnDisabled' = FALSE

\* callGeminiAPI and the try block applied to each response, computed once.
Parsed  == [r \in Responses |-> ParseCandidate(r.body)]
Handled == [r \in Responses |-> HandleResult(Parsed[r].v)]

\* The same for any response: looked up where it was computed once.
ParsedFor(r)  == IF r \in Responses THEN Parsed[r] ELSE ParseCandidate(r.body)
HandledFor(r) == IF r \in Responses THEN Handled[r] ELSE HandleResult(ParsedFor(r).v)

NoResponse == [status |-> 0, statusText |-> "", body |-> Body(FALSE, <<>>)]

(***************************************************************************)
(* The user types into the input box.                                       *)
(***************************************************************************)
TypeInput(v) ==
    /\ inputCode # v
    /\ inputCode' = v
    /\ UNCHANGED <<reviewOutput, outputCode, scoreDisplay, loaderHidden,
                   reviewBtnDisabled, errorBoxHidden, errorMessage, copyBtnText,
                   calls, timers, copyWrites, copyTimers, cleared,
                   arg, ret, proxy>>

(***************************************************************************)
(* Click on "Review My Code", up to the await of fetch.  A disabled button  *)
(* receives no click.                                                       *)
(***************************************************************************)
SubmitClick ==
    /\ ~reviewBtnDisabled
    /\ cleared' = FALSE
    /\ IF IsBlank(inputCode)
       THEN /\ showError(ValidationMsg)
            /\ UNCHANGED <<loaderHidden, reviewBtnDisabled, calls>>
       ELSE /\ Len(calls) + Len(timers) < MaxAnim
            /\ EnterLoading
            /\ calls' = Append(calls, [pc |-> "fetch", resp |-> NoResponse])
    /\ UNCHANGED <<inputCode, reviewOutput, outputCode, scoreDisplay, copyBtnText,
                   timers, copyWrites, copyTimers, arg, ret, proxy>>

(***************************************************************************)
(* The fetch of invocation i settles with outcome o: lines 73-83.          *)
(***************************************************************************)
FetchSettle(i, o) ==
    /\ i \in 1..Len(calls)
    /\ calls[i].pc = "fetch"
    /\ IF o = NetworkError
       THEN /\ Catch(<<o.statusText>>)
            /\ Finally
            /\ calls' = Remove(calls, i)
       ELSE IF ThrowsOnStatus(o)
       THEN /\ Catch(ApiErrorMsg(o))
            /\ Finally
            /\ calls' = Remove(calls, i)
       ELSE /\ calls' = [calls EXCEPT ![i] = [pc |-> "json", resp |-> o]]
            /\ UNCHANGED <<loaderHidden, reviewBtnDisabled, errorBoxHidden,
                           errorMessage>>
    /\ UNCHANGED <<inputCode, reviewOutput, outputCode, scoreDisplay, copyBtnText,
                   timers, copyWrites, copyTimers, cleared, arg, ret, proxy>>

(***************************************************************************)
(* response.json() of invocation i settles: lines 83-95 and 116-136.       *)
(***************************************************************************)
JsonSettle(i) ==
    /\ i \in 1..Len(calls)
    /\ calls[i].pc = "json"
    /\ LET r == calls[i].resp
           p == ParsedFor(r)
           h == HandledFor(r)
       IN  IF ~r.body.json
           THEN /\ Catch(SyntaxErrorMsg)
                /\ UNCHANGED <<reviewOutput, outputCode, timers>>
           ELSE IF ~p.ok
           THEN /\ Catch(p.msg)
                /\ UNCHANGED <<reviewOutput, outputCode, timers>>
           ELSE /\ reviewOutput' = (IF h.review THEN h.html ELSE reviewOutput)
                /\ outputCode' = (IF h.code THEN h.value ELSE outputCode)
                /\ IF h.animate THEN animateScore(h.score) ELSE UNCHANGED timers
                /\ IF h.failed THEN Catch(h.msg)
                   ELSE UNCHANGED <<errorBoxHidden, errorMessage>>
    /\ Finally
    /\ calls' = Remove(calls, i)
    /\ UNCHANGED <<inputCode, scoreDisplay, copyBtnText, copyWrites,
                   copyTimers, cleared, arg, ret, proxy>>

(***************************************************************************)
(* Click on "Clear": lines 140-146.                                        *)
(***************************************************************************)
ClearClick ==
    /\ inputCode' = <<>>
    /\ reviewOutput' = Placeholder
    /\ outputCode' = <<>>
    /\ scoreDisplay' = "N/A"
    /\ hideError
    /\ cleared' = TRUE
    /\ UNCHANGED <<loaderHidden, reviewBtnDisabled, copyBtnText, calls,
                   timers, copyWrites, copyTimers, arg, ret, proxy>>

(***************************************************************************)
(* Click on "Copy" and the settling of its clipboard write: lines 149-158. *)
(***************************************************************************)
\* The Copy handler without the test of the box.
CopyHandlerUnguarded(max) ==
    /\ Len(copyWrites) + Len(copyTimers) < max
    /\ copyWrites' = Append(copyWrites, outputCode)
    /\ UNCHANGED <<inputCode, reviewOutput, outputCode, scoreDisplay, loaderHidden,
                   reviewBtnDisabled, errorBoxHidden, errorMessage, copyBtnText,
                   calls, timers, copyTimers, cleared>>

\* The Copy handler, followed while fewer than max writes and relabel timers
\* are pending together.
CopyHandler(max) ==
    /\ IF outputCode # <<>>
       THEN /\ Len(copyWrites) + Len(copyTimers) < max
            /\ copyWrites' = Append(copyWrites, outputCode)
       ELSE UNCHANGED copyWrites
    /\ UNCHANGED <<inputCode, reviewOutput, outputCode, scoreDisplay, loaderHidden,
                   reviewBtnDisabled, errorBoxHidden, errorMessage, copyBtnText,
                   calls, timers, copyTimers, cleared>>

CopyClick ==
    /\ CopyHandler(MaxCopies)
    /\ UNCHANGED <<arg, ret, proxy>>

ClipboardSettle(i, written) ==
    /\ i \in 1..Len(copyWrites)
    /\ copyWrites' = Remove(copyWrites, i)
    /\ IF written
       THEN /\ copyBtnText' = "Copied!"
            /\ copyTimers' = Append(copyTimers, CopyDelay)
       ELSE UNCHANGED <<copyBtnText, copyTimers>>
    /\ UNCHANGED <<inputCode, reviewOutput, outputCode, scoreDisplay, loaderHidden,
                   reviewBtnDisabled, errorBoxHidden, errorMessage, calls, timers,
                   cleared, arg, ret, proxy>>

\* The relabel timer that is due first fires.
CopyTimeout ==
    /\ \E i \in 1..Len(copyTimers) :
          /\ copyTimers[i] = 0
          /\ \A j \in 1..(i - 1) : copyTimers[j] # 0
          /\ copyTimers' = Remove(copyTimers, i)
    /\ copyBtnText' = "Copy"
    /\ UNCHANGED <<inputCode, reviewOutput, outputCode, scoreDisplay, loaderHidden,
                   reviewBtnDisabled, errorBoxHidden, errorMessage, calls,
                   timers, copyWrites, cleared, arg, ret, proxy>>

(***************************************************************************)
(* The interval callback of animateScore: lines 179-185.  An animation      *)
(* whose target is not a number never stops; it is followed for MaxTicks    *)
(* ticks.                                                                   *)
(***************************************************************************)
Live(t) == ~(ToNumber(t.final).nan /\ t.cur >= MaxTicks)

Due(i) == Live(timers[i]) /\ timers[i].rem = 0

AnimTick ==
    /\ \E i \in 1..Len(timers) :
          /\ Due(i)
          /\ \A j \in 1..(i - 1) : ~Due(j)
          /\ LET currentScore == timers[i].cur + 1
             IN  /\ scoreDisplay' = ToString(currentScore)
                 /\ timers' = IF GreaterOrEqual(currentScore, timers[i].final)
                              THEN Remove(timers, i)
                              ELSE [timers EXCEPT ![i].cur = currentScore,
                                                  ![i].rem = AnimInterval]
    /\ UNCHANGED <<inputCode, reviewOutput, outputCode, loaderHidden,
                   reviewBtnDisabled, errorBoxHidden, errorMessage, copyBtnText,
                   calls, copyWrites, copyTimers, cleared, arg, ret, proxy>>

(***************************************************************************)
(* Time passes.  The animation intervals and the relabel timeouts run on     *)
(* clocks of their own: the model leaves open how the 20-unit ticks fall     *)
(* within a 2000-unit relabel window, so a tick and a relabel that are both  *)
(* pending may fire in either order.                                         *)
(***************************************************************************)
Min(S) == CHOOSE x \in S : \A y \in S : x <= y

AnimWaiting == {timers[i].rem : i \in {j \in 1..Len(timers) : Live(timers[j])}}

\* Up to the next tick that is due.
AnimAdvance ==
    /\ AnimWaiting # {}
    /\ 0 \notin AnimWaiting
    /\ timers' = [i \in 1..Len(timers) |->
                     IF Live(timers[i])
                     THEN [timers[i] EXCEPT !.rem = @ - Min(AnimWaiting)]
                     ELSE timers[i]]
    /\ UNCHANGED <<inputCode, reviewOutput, outputCode, scoreDisplay, loaderHidden,
                   reviewBtnDisabled, errorBoxHidden, errorMessage, copyBtnText,
                   calls, copyWrites, copyTimers, cleared, arg, ret, proxy>>

CopyWaiting == {copyTimers[i] : i \in 1..Len(copyTimers)}

\* The instants within a relabel window at which the model lets the user act.
Pauses == {1000}

CopyElapse ==
    IF CopyWaiting = {} \/ 0 \in CopyWaiting THEN {}
    ELSE {Min(CopyWaiting)} \cup {p \in Pauses : p < Min(CopyWaiting)}

\* By d, no further than the next relabel that is due.
CopyAdvance(d) ==
    /\ d \in CopyElapse
    /\ copyTimers' = [i \in 1..Len(copyTimers) |-> copyTimers[i] - d]
    /\ UNCHANGED <<inputCode, reviewOutput, outputCode, scoreDisplay, loaderHidden,
                   reviewBtnDisabled, errorBoxHidden, errorMessage, copyBtnText,
                   calls, timers, copyWrites, cleared, arg, ret, proxy>>

Next ==
    \/ \E v \in Inputs : TypeInput(v)
    \/ SubmitClick
    \/ \E i \in 1..MaxAnim, o \in Outcomes : FetchSettle(i, o)
    \/ \E i \in 1..MaxAnim : JsonSettle(i)
    \/ ClearClick
    \/ CopyClick
    \/ \E i \in 1..MaxCopies, w \in BOOLEAN : ClipboardSettle(i, w)
    \/ CopyTimeout
    \/ AnimTick
    \/ AnimAdvance
    \/ \E d \in CopyElapse : CopyAdvance(d)

Spec == Init /\ [][Next]_vars

(***************************************************************************)
(* animateScore run alone: one call on the loaded page, then only its       *)
(* timer runs.                                                              *)
(***************************************************************************)

\* "a score from 0 to 100"
MaxScore == 100

InitAnimate ==
    /\ PageLoaded
    /\ arg \in {Num(f) : f \in 0..MaxScore} \cup {Undef}
    /\ ret = NotCalled
    /\ proxy = ProxyIdle

CallAnimate ==
    /\ ~ret.called
    /\ animateScore(arg)
    /\ ret' = Returned(<<>>)
    /\ UNCHANGED <<inputCode, reviewOutput, outputCode, scoreDisplay, loaderHidden,
                   reviewBtnDisabled, errorBoxHidden, errorMessage, copyBtnText,
                   calls, copyWrites, copyTimers, cleared, arg, proxy>>

NextAnimate ==
    \/ CallAnimate
    \/ AnimTick
    \/ AnimAdvance

SpecAnimate == InitAnimate /\ [][NextAnimate]_vars

(***************************************************************************)
(* formatReviewAsHtml applied to one review text.                           *)
(***************************************************************************)

MaxLen == 4   \* characters of a review text

ReviewChars == {" ", "*", "a", "\n"}

ReviewTexts == UNION {[1..n -> ReviewChars] : n \in 0..MaxLen}

InitFormat ==
    /\ PageLoaded
    /\ arg \in ReviewTexts
    /\ ret = NotCalled
    /\ proxy = ProxyIdle

CallFormat ==
    /\ ~ret.called
    /\ ret' = Returned(formatReviewAsHtml(arg))
    /\ UNCHANGED <<inputCode, reviewOutput, outputCode, scoreDisplay, loaderHidden,
                   reviewBtnDisabled, errorBoxHidden, errorMessage, copyBtnText,
                   calls, timers, copyWrites, copyTimers, cleared, arg, proxy>>

NextFormat == CallFormat

SpecFormat == InitFormat /\ [][NextFormat]_vars

(***************************************************************************)
(* The Completion Client applied to one fenced candidate text.              *)
(***************************************************************************)

SampleReviews == {<<"o", "k">>, <<"*", " ", "a", "\n", "*", " ", "b">>, <<>>}

SampleCodes ==
    { <<>>, <<"x">>, <<BT, BT>>, <<"a", BT, BT, BT, "b">>,
      FenceJson \o <<"\n", "{", "}", "\n">> \o Fence,
      <<"j", "s", "o", "n">> }

SampleScores == {0, 7, 90}

\* The JSON object texts J.
SampleResults ==
    { ReviewResult(Str(r), Str(u), Num(sc)) :
        r \in SampleReviews, u \in SampleCodes, sc \in SampleScores }

\* [j, text]: a JSON object text and the candidate text that wraps it.
FencedTexts ==
    { [j |-> Stringify(o), text |-> Wrap(Stringify(o))] : o \in SampleResults }
    \cup { [j |-> Stringify(o), text |-> WrapPlain(Stringify(o))] : o \in SampleResults }

InitClean ==
    /\ PageLoaded
    /\ arg \in FencedTexts
    /\ ret = NotCalled
    /\ proxy = ProxyIdle

CallClean ==
    /\ ~ret.called
    /\ ret' = Returned(ParseCandidate(Body(TRUE, <<arg.text>>)))
    /\ UNCHANGED <<inputCode, reviewOutput, outputCode, scoreDisplay, loaderHidden,
                   reviewBtnDisabled, errorBoxHidden, errorMessage, copyBtnText,
                   calls, timers, copyWrites, copyTimers, cleared, arg, proxy>>

NextClean == CallClean

SpecClean == InitClean /\ [][NextClean]_vars

(***************************************************************************)
(* The Copy handler followed with overlapping relabel windows: the page     *)
(* as loaded, or after a review has been shown and its animation has run    *)
(* to its end; then only Copy and Clear clicks, clipboard writes and the    *)
(* relabel timers.  ret holds the box content the last Copy click found.    *)
(***************************************************************************)

MaxOverlap == 2   \* clipboard writes and relabel timers pending together

\* The responses that end in Success with a score the animation stops at.
Succeeding ==
    {r \in Responses :
        /\ Ok(r)
        /\ r.body.json
        /\ Parsed[r].ok
        /\ ~Handled[r].failed
        /\ Handled[r].score.t = "number"
        /\ Handled[r].score.n >= 1}

\* The page after response r was rendered and its animation has stopped.
Reviewed(r) ==
    /\ inputCode = <<" ", "x", " ">>
    /\ reviewOutput = Handled[r].html
    /\ outputCode = Handled[r].value
    /\ scoreDisplay = ToString(Handled[r].score.n)
    /\ loaderHidden = TRUE
    /\ reviewBtnDisabled = FALSE
    /\ errorBoxHidden = TRUE
    /\ errorMessage = <<>>
    /\ copyBtnText = "Copy"
    /\ calls = <<>>
    /\ timers = <<>>
    /\ copyWrites = <<>>
    /\ copyTimers = <<>>
    /\ cleared = FALSE

InitCopy ==
    /\ \/ PageLoaded
       \/ \E r \in Succeeding : Reviewed(r)
    /\ arg = <<>>
    /\ ret = NotCalled
    /\ proxy = ProxyIdle

CopyClickSeen ==
    /\ CopyHandler(MaxOverlap)
    /\ ret' = Returned(outputCode)
    /\ UNCHANGED <<arg, proxy>>

NextCopy ==
    \/ CopyClickSeen
    \/ \E i \in 1..MaxOverlap, w \in BOOLEAN : ClipboardSettle(i, w)
    \/ CopyTimeout
    \/ \E d \in CopyElapse : CopyAdvance(d)
    \/ ClearClick

SpecCopy == InitCopy /\ [][NextCopy]_vars

(***************************************************************************)
(* The Resolve step alone: a first submission whose response has arrived    *)
(* and is being read, the response carrying the result object arg; then     *)
(* the handler's continuation and the animation.                            *)
(***************************************************************************)

InitResolve ==
    /\ arg \in ResolveResults
    /\ calls = <<[pc |-> "json", resp |-> ResponseWith(arg)]>>
    /\ inputCode = <<" ", "x", " ">>
    /\ reviewOutput = Placeholder
    /\ outputCode = <<>>
    /\ scoreDisplay = "N/A"
    /\ loaderHidden = FALSE
    /\ reviewBtnDisabled = TRUE
    /\ errorBoxHidden = TRUE
    /\ errorMessage = <<>>
    /\ copyBtnText = "Copy"
    /\ timers = <<>>
    /\ copyWrites = <<>>
    /\ copyTimers = <<>>
    /\ cleared = FALSE
    /\ ret = NotCalled
    /\ proxy = ProxyIdle

NextResolve ==
    \/ JsonSettle(1)
    \/ AnimTick
    \/ AnimAdvance

SpecResolve == InitResolve /\ [][NextResolve]_vars

(***************************************************************************)
(* The proxy: exports.handler of netlify/functions/review.js, one           *)
(* invocation.  arg is the invocation's input, [event, apiKey]: the event   *)
(* ([httpMethod, body]) and process.env.GEMINI_API_KEY.  ret is the object  *)
(* the handler's promise resolves with.  proxy.pc is the handler's          *)
(* position: idle, at the await of fetch, at the await of response.json(),  *)
(* done (returned) or rejected (left by an exception).                      *)
(***************************************************************************)

pageVars == <<inputCode, reviewOutput, outputCode, scoreDisplay, loaderHidden,
              reviewBtnDisabled, errorBoxHidden, errorMessage, copyBtnText,
              calls, timers, copyWrites, copyTimers, cleared>>

KeyCode  == <<"c", "o", "d", "e">>
KeyError == <<"e", "r", "r", "o", "r">>

NoHeaders == "none"
JsonType  == "application/json"

\* The object the handler returns: { statusCode, headers, body }.
Response(statusCode, contentType, body) ==
    [statusCode |-> statusCode, headers |-> contentType, body |-> body]

MethodNotAllowed == Response(405, NoHeaders, <<"Method Not Allowed">>)

NoKeyMsg == <<"API key is not configured on the server.">>

\* JSON.stringify({ error: msg })
ErrorPayload(msg) == Stringify(Obj(<<[k |-> KeyError, v |-> Str(msg)]>>))

MissingKey == Response(500, NoHeaders, ErrorPayload(NoKeyMsg))

\* How a handler's step ends: with the object returned, or by an exception
\* that leaves the handler.
Returning(r) == [returned |-> TRUE, response |-> r]
Throwing     == [returned |-> FALSE, response |-> Response(0, NoHeaders, <<>>)]

\* The handler without the method test.
MethodAllowedAny(httpMethod) == TRUE

\* event.httpMethod !== 'POST'
MethodAllowed(httpMethod) == httpMethod = "POST"

\* const { code } = JSON.parse(event.body): JSON.parse converts its argument
\* to a string first (null reads as the text null, undefined is no JSON
\* text); destructuring null throws a TypeError.  [ok, code, msg].
ParseBody(body) ==
    LET p == IF body.t = "string" THEN JSONparse(body.s)
             ELSE IF body.t = "null" THEN [ok |-> TRUE, v |-> Null]
             ELSE [ok |-> FALSE, v |-> Undef]
    IN  IF ~p.ok THEN [ok |-> FALSE, code |-> Undef, msg |-> SyntaxErrorMsg]
        ELSE IF p.v.t = "null"
        THEN [ok |-> FALSE, code |-> Undef,
              msg |-> TypeErrorMsg("Cannot destructure property 'code' of 'JSON.parse(...)' as it is null.")]
        ELSE [ok |-> TRUE, code |-> Get(p.v, KeyCode), msg |-> <<>>]

\* The handler without its try/catch.
Uncaught(msg) == Throwing

\* catch (error) { return { statusCode: 500, body: JSON.stringify({ error: error.message }) } }
Caught(msg) == Returning(Response(500, NoHeaders, ErrorPayload(msg)))

\* The success response, with the candidate text validated before it is relayed.
SuccessResponseValidated(responseText) ==
    IF JSONparse(responseText).ok
    THEN Response(200, JsonType, responseText)
    ELSE Response(500, NoHeaders, ErrorPayload(SyntaxErrorMsg))

\* Lines 65-69.
SuccessResponse(responseText) == Response(200, JsonType, responseText)

\* Lines 55-59: the status of the upstream response and its body, read by
\* response.json() and written again by JSON.stringify.
RelayError(up) ==
    LET errorData == JSONparse(up.text)
    IN  IF ~errorData.ok THEN Caught(SyntaxErrorMsg)
        ELSE Returning(Response(up.status, NoHeaders, Stringify(errorData.v)))

\* Lines 61-69.
RelaySuccess(up) ==
    IF ~up.json THEN Caught(SyntaxErrorMsg)
    ELSE IF up.candidates = <<>>
    THEN Caught(TypeErrorMsg("Cannot read properties of undefined (reading 'content')"))
    ELSE Returning(SuccessResponse(up.candidates[1]))

(***************************************************************************)
(* What the completion endpoint may answer the proxy.  An error body is     *)
(* held as its text; a success body as what response.json() makes of it:    *)
(* whether it is JSON, and the texts of its candidates.                     *)
(***************************************************************************)
UpError(status, text) ==
    [status |-> status, text |-> text, json |-> JSONparse(text).ok, candidates |-> <<>>]

UpSuccess(isJson, cands) ==
    [status |-> 200, text |-> <<>>, json |-> isJson, candidates |-> cands]

QuotaCompact == <<"{", "\"", "e", "\"", ":", "\"", "q", "\"", "}">>
QuotaSpaced  == <<"{", " ", "\"", "e", "\"", ":", " ", "\"", "q", "\"", " ", "}">>

Upstreams ==
    { UpError(429, QuotaCompact),
      UpError(429, QuotaSpaced),
      UpError(503, <<"S", "e", "r", "v", "i", "c", "e", " ", "U", "n", "a", "v", "a", "i", "l", "a", "b", "l", "e">>),
      UpError(500, <<>>),
      UpSuccess(FALSE, <<>>),
      UpSuccess(TRUE, <<>>),
      UpSuccess(TRUE, <<Stringify(ReviewResult(Str(<<"*", "d">>), Str(<<"x">>), Num(7)))>>),
      UpSuccess(TRUE, <<<<"S", "u", "r", "e", "!">>>>) }

\* fetch() rejects.
UpstreamDown == [status |-> -1, text |-> <<"fetch failed">>, json |-> FALSE, candidates |-> <<>>]

Methods == {"GET", "POST", "PUT"}

\* event.body
Bodies ==
    { Null, Undef,
      Str(Stringify(Obj(<<[k |-> KeyCode, v |-> Str(<<"x">>)]>>))),
      Str(<<"{", "}">>),
      Str(<<"n", "u", "l", "l">>),
      Str(<<"5">>),
      Str(<<"S", "u", "r", "e", "!">>) }

\* process.env.GEMINI_API_KEY
ApiKeys == {Undef, Str(<<>>), Str(<<"k">>)}

InitProxy ==
    /\ PageLoaded
    /\ arg \in [event : [httpMethod : Methods, body : Bodies], apiKey : ApiKeys]
    /\ ret = NotCalled
    /\ proxy = ProxyIdle

\* The handler's step ends with outcome o, the invocation's record being p.
ProxyEnd(o, p) ==
    /\ ret' = IF o.returned THEN Returned(o.response) ELSE ret
    /\ proxy' = [p EXCEPT !.pc = IF o.returned THEN "done" ELSE "rejected"]

\* Lines 4-53: from the call up to the await of fetch.
ProxyInvoke ==
    /\ proxy.pc = "idle"
    /\ LET body   == ParseBody(arg.event.body)
           parsed == [proxy EXCEPT !.parsed = TRUE]
       IN  IF ~MethodAllowed(arg.event.httpMethod)
           THEN ProxyEnd(Returning(MethodNotAllowed), proxy)
           ELSE IF ~body.ok THEN ProxyEnd(Caught(body.msg), parsed)
           ELSE IF ~Truthy(arg.apiKey) THEN ProxyEnd(Returning(MissingKey), parsed)
           ELSE /\ proxy' = [parsed EXCEPT !.pc = "fetch",
                                           !.upstreamCalls = @ + 1]
                /\ UNCHANGED ret
    /\ UNCHANGED <<pageVars, arg>>

\* The upstream fetch settles with outcome o: lines 49-56 and 61.
ProxyFetchSettle(o) ==
    /\ proxy.pc = "fetch"
    /\ IF o = UpstreamDown
       THEN ProxyEnd(Caught(o.text), proxy)
       ELSE /\ proxy' = [proxy EXCEPT !.pc = "json", !.up = o]
            /\ UNCHANGED ret
    /\ UNCHANGED <<pageVars, arg>>

\* response.json() of the upstream response settles: lines 55-74.
ProxyJsonSettle ==
    /\ proxy.pc = "json"
    /\ IF Ok(proxy.up)
       THEN ProxyEnd(RelaySuccess(proxy.up), proxy)
       ELSE ProxyEnd(RelayError(proxy.up), proxy)
    /\ UNCHANGED <<pageVars, arg>>

NextProxy ==
    \/ ProxyInvoke
    \/ \E o \in Upstreams \cup {UpstreamDown} : ProxyFetchSettle(o)
    \/ ProxyJsonSettle

SpecProxy == InitProxy /\ [][NextProxy]_vars

(***************************************************************************)
(* Properties.                                                              *)
(***************************************************************************)

Contains(seq, x) == \E i \in 1..Len(seq) : seq[i] = x

OnlyWhitespace(s) == \A i \in 1..Len(s) : IsWs(s[i])

PanelsUnchanged ==
    /\ reviewOutput' = reviewOutput
    /\ outputCode' = outputCode
    /\ scoreDisplay' = scoreDisplay

\* A Submit handler ran to its end in this step.
Settled == Len(calls') < Len(calls)

\* C1: a Submit click on non-blank input issues exactly one network call;
\* while the call has not settled the button is disabled and the spinner is
\* shown; whenever no call is pending, in particular once the call has
\* settled with whatever outcome, the button is enabled and the spinner hidden.
C1_SubmitLoadsOnce ==
    /\ [](calls # <<>> => reviewBtnDisabled /\ ~loaderHidden)
    /\ [](calls = <<>> => ~reviewBtnDisabled /\ loaderHidden)
    /\ [][(SubmitClick /\ ~OnlyWhitespace(inputCode))
            => (calls = <<>> /\ Len(calls') = 1 /\ calls'[1].pc = "fetch")]_vars
    /\ [][Settled => (calls' = <<>> /\ ~reviewBtnDisabled' /\ loaderHidden')]_vars

C1_Witness ==
    /\ calls = <<>>
    /\ ~reviewBtnDisabled
    /\ loaderHidden
    /\ ~errorBoxHidden
    /\ errorMessage = ErrorPrefix \o InvalidResponseMsg

\* C2: a Submit click on empty or white-space-only input issues no network
\* call, leaves the spinner hidden, the button enabled and the three panels
\* as they were, and shows the banner with the validation message.
C2_BlankSubmit ==
    [][(SubmitClick /\ OnlyWhitespace(inputCode))
         => /\ calls' = calls
            /\ calls' = <<>>
            /\ loaderHidden'
            /\ ~reviewBtnDisabled'
            /\ PanelsUnchanged
            /\ timers' = timers
            /\ ~errorBoxHidden'
            /\ errorMessage' = ValidationMsg]_vars

C2_Witness ==
    /\ inputCode = <<" ", "\n">>
    /\ ~errorBoxHidden
    /\ errorMessage = ValidationMsg
    /\ calls = <<>>
    /\ ~reviewBtnDisabled

\* C3: at most one network call is in flight in every reachable state.
C3_SingleFlight == Len(calls) <= 1

C3_Witness ==
    /\ Len(calls) = 1
    /\ calls[1].pc = "fetch"
    /\ timers # <<>>
    /\ copyTimers # <<>>

\* C4: animateScore(finalScore) run alone, for an integer finalScore in
\* 0..100: once its timer is cancelled the display shows finalScore.
C4_Claim ==
    (ret.called /\ arg.t = "number" /\ timers = <<>>)
        => scoreDisplay = ToString(arg.n)

\* C5: a submission that ends in the Error state has written nothing to the
\* review panel, the corrected-code box or the score display.
C5_Claim ==
    [][(Settled /\ ~errorBoxHidden') => (PanelsUnchanged /\ timers' = timers)]_vars

\* C6: the Completion Client given J wrapped in fence markers returns the
\* object that parsing J itself gives.
C6_Claim ==
    ret.called => (ret.value.ok /\ ret.value.v = JSONparse(arg.j).v)

\* C7: a response whose status is not a success status never has its body
\* read, and its arrival ends the submission with the banner showing a
\* message that contains the status code.
C7_StatusError ==
    /\ [](\A i \in 1..Len(calls) : calls[i].pc = "json" => calls[i].resp.status \in 200..299)
    /\ [][\A i \in 1..MaxAnim, o \in Responses :
            (o.status \notin 200..299 /\ FetchSettle(i, o))
              => /\ calls' = Remove(calls, i)
                 /\ ~errorBoxHidden'
                 /\ Contains(errorMessage', ToString(o.status))
                 /\ PanelsUnchanged]_vars

C7_Witness ==
    /\ calls = <<>>
    /\ ~errorBoxHidden
    /\ Contains(errorMessage, "429")

\* C8: a success response with no candidate, or whose cleaned candidate text
\* is not valid JSON, ends in Error with the fixed invalid-response message
\* in the banner.
C8_Claim ==
    [][\A i \in 1..MaxAnim :
         (/\ JsonSettle(i)
          /\ calls[i].resp.body.json
          /\ \/ calls[i].resp.body.candidates = <<>>
             \/ ~JSONparse(CleanResponse(calls[i].resp.body.candidates[1])).ok)
           => /\ ~errorBoxHidden'
              /\ errorMessage' = ErrorPrefix \o InvalidResponseMsg]_vars

\* C9: formatReviewAsHtml emits one list item per non-blank line, in order,
\* holding the line after its first asterisk (the whole line if it has
\* none), trimmed.
ItemOf(line) == Trim(Substring(line, IndexOf(line, "*") + 1))

RECURSIVE ItemsMarkup(_, _)
ItemsMarkup(lines, i) ==
    IF i > Len(lines) THEN <<>>
    ELSE <<LiOpen>> \o ItemOf(lines[i]) \o <<LiClose>> \o ItemsMarkup(lines, i + 1)

C9_Claim ==
    ret.called =>
        ret.value = <<UlOpen>>
                      \o ItemsMarkup(SelectSeq(Split(arg, "\n"), IsNonBlank), 1)
                      \o <<UlClose>>

\* C10: from a Clear click until the next Submit click the review panel shows
\* its placeholder, the corrected-code box is empty and the score display
\* shows 'N/A'.
C10_Claim ==
    cleared => /\ reviewOutput = Placeholder
               /\ outputCode = <<>>
               /\ scoreDisplay = "N/A"

\* C11: a Copy click while the corrected-code box is empty appends no
\* clipboard write, starts no relabel timer and leaves the label of the copy
\* control as it was; and no clipboard write of the empty text is ever pending.
C11_EmptyCopy ==
    /\ [](\A i \in 1..Len(copyWrites) : copyWrites[i] # <<>>)
    /\ [][(CopyClickSeen /\ outputCode = <<>>)
            => /\ copyWrites' = copyWrites
               /\ copyTimers' = copyTimers
               /\ copyBtnText' = copyBtnText]_vars

C11_Witness ==
    /\ ret.called
    /\ ret.value = <<>>
    /\ outputCode = <<>>
    /\ copyBtnText = "Copied!"
    /\ copyTimers # <<>>
    /\ copyWrites = <<>>

\* C20: while the 2000-unit window after a successful clipboard write has not
\* run out the copy control shows 'Copied!', and once no relabel timer is
\* pending it shows 'Copy' again.
C20_Claim ==
    /\ (\E i \in 1..Len(copyTimers) : copyTimers[i] > 0) => copyBtnText = "Copied!"
    /\ copyTimers = <<>> => copyBtnText = "Copy"

\* An answer of the completion endpoint has reached the handler.
Answered == proxy.up # NoUpstream

\* C12: a request whose method is not POST is answered 405, whatever its body
\* and whatever the credential; its body is never parsed and no upstream
\* call is issued.
C12_NotPost ==
    arg.event.httpMethod # "POST" =>
        /\ proxy.pc \in {"idle", "done"}
        /\ ~proxy.parsed
        /\ proxy.upstreamCalls = 0
        /\ proxy.pc = "done" => (ret.called /\ ret.value.statusCode = 405)

C12_Witness ==
    /\ proxy.pc = "done"
    /\ arg.event.httpMethod = "GET"
    /\ arg.event.body = Str(<<"S", "u", "r", "e", "!">>)
    /\ arg.apiKey = Undef
    /\ ret.called
    /\ ret.value.statusCode = 405

\* C13: a POST request handled while the credential is absent is answered
\* 500 with the fixed 'API key is not configured' payload, whatever its
\* body, and no upstream call is issued.
C13_Claim ==
    (arg.event.httpMethod = "POST" /\ ~Truthy(arg.apiKey)) =>
        /\ proxy.upstreamCalls = 0
        /\ proxy.pc # "idle" =>
              /\ ret.called
              /\ ret.value.statusCode = 500
              /\ ret.value.body = ErrorPayload(NoKeyMsg)

\* C14: when the completion endpoint answers with a non-success status, the
\* handler's response carries that status and the upstream body unchanged.
C14_Claim ==
    (proxy.pc = "done" /\ Answered /\ proxy.up.status \notin 200..299) =>
        /\ ret.value.statusCode = proxy.up.status
        /\ ret.value.body = proxy.up.text

C18_SingleShot ==
    /\ [](proxy.upstreamCalls <= 1)
    /\ [](proxy.pc # "rejected")
    /\ [](ret.called <=> proxy.pc = "done")
    /\ [](ret.called =>
            ret.value.statusCode \in
                {405, 500, 200} \cup (IF Answered THEN {proxy.up.status} ELSE {}))
    /\ [][ret.called => ret' = ret]_vars

C18_Witness ==
    /\ proxy.pc = "done"
    /\ proxy.upstreamCalls = 1
    /\ proxy.up = UpSuccess(TRUE, <<>>)
    /\ ret.called
    /\ ret.value.statusCode = 500

\* C16: once every animation timer has stopped, the score display shows the
\* score of the most recent successful review, the one whose markup the
\* review panel holds (also when that review succeeded while the animation
\* of an earlier one was still running).
C16_Claim ==
    \A r \in Succeeding :
        (timers = <<>> /\ reviewOutput = Handled[r].html)
            => scoreDisplay = ToString(Handled[r].score.n)

\* C19: in every reachable state of the page the spinner is shown if and only
\* if the submit button is disabled, if and only if a submission is in
\* progress; and while a submission is in progress the error banner is hidden.
C19_Loading ==
    /\ ~loaderHidden <=> reviewBtnDisabled
    /\ reviewBtnDisabled <=> calls # <<>>
    /\ calls # <<>> => errorBoxHidden

C19_Witness ==
    /\ Len(calls) = 1
    /\ calls[1].pc = "json"
    /\ reviewBtnDisabled
    /\ ~loaderHidden
    /\ errorBoxHidden
    /\ errorMessage = ValidationMsg
    /\ cleared
    /\ copyTimers # <<>>

\* C17: when a review succeeds, the corrected-code box holds updatedCode if
\* that is a string with a character that is not white space, and the fixed
\* placeholder otherwise (updatedCode missing, empty or only white space);
\* in both cases the review panel holds the review's markup and a score
\* animation has been started.
C17_Resolve ==
    (calls = <<>> /\ errorBoxHidden) =>
        LET updatedCode == Get(arg, KeyUpdatedCode)
        IN  /\ outputCode = IF updatedCode.t = "string" /\ ~OnlyWhitespace(updatedCode.s)
                            THEN updatedCode.s
                            ELSE NoChangesMsg
            /\ reviewOutput # Placeholder
            /\ reviewOutput = formatReviewAsHtml(Get(arg, KeyReview).s)
            /\ timers # <<>> \/ scoreDisplay # "N/A"

C17_Witness ==
    /\ calls = <<>>
    /\ errorBoxHidden
    /\ Get(arg, KeyUpdatedCode) = Str(<<" ", "\n">>)
    /\ outputCode = NoChangesMsg
    /\ reviewOutput # Placeholder
    /\ timers # <<>>

=============================================================================
